---- MODULE Spec2Model ----
(***************************************************************************)
(* Set-associative LRU cache simulator with sequential prefetch.           *)
(*                                                                         *)
(*   src/cache_asociativo.cpp     ExternalMemory, CacheSet, Cache<N>,      *)
(*                                RealisticAccessPattern, run_simulation   *)
(*   src/simulacion-cache.cpp     Cache<N> (prefetch, no counter), main    *)
(*                                                                         *)
(* The compile-time configuration of the sources (CACHE_SIZE = 2048,       *)
(* block size 32, NUM_ELEMENTS = 4096, ...) is scaled down: the            *)
(* configuration is drawn in Init from the ranges bounded below and never  *)
(* changes afterwards.                                                     *)
(*                                                                         *)
(*   Spec     any caller of Cache::access (cache_asociativo.cpp)           *)
(*   SpecRun  CacheSimulator::run_simulation (cache_asociativo.cpp)        *)
(*   SpecSim  one run of the loop of main (simulacion-cache.cpp)           *)
(***************************************************************************)
EXTENDS Integers, Sequences, FiniteSets, TLC

\* ------------------------------------------------------------------ bounds
MaxBlockSize == 2      \* block size ranges over 1..MaxBlockSize
MaxWays      == 2      \* associativity ranges over 1..MaxWays
MaxCacheSize == 4      \* cache capacity ranges over 1..MaxCacheSize
MaxPrefetch  == 2      \* prefetch distance ranges over 0..MaxPrefetch
MaxBlocks    == 3      \* blocks of the memory seen by the free caller
MaxCalls     == 3      \* access() calls made by the free caller
MaxDirect    == 2      \* direct prefetch calls made by the free caller
MaxSetWays   == 3      \* ways of a CacheSet used on its own
MaxTouches   == 4      \* calls made on a CacheSet used on its own

VARIABLES
    \* configuration (constants of the sources, template parameter NUM_WAYS)
    CACHE_SIZE, MyBLOCK_SIZE, NUM_WAYS, PREFETCH_DISTANCE, NUM_ELEMENTS,
    \* cache_asociativo.cpp: Cache<NUM_WAYS> and what its last access() did
    sets, hits, misses, prefetch_hits,
    calls,      \* number of access() calls made on the cache
    ret,        \* its return value (TRUE = hit)
    reads,      \* blocks read from ExternalMemory by that access, in order
    thrown,     \* std::out_of_range left that access
    \* simulacion-cache.cpp: Cache<NUM_WAYS> and what its last access() did
    cache, sim_hits, sim_misses,
    sim_ret,    \* its return value (TRUE = hit)
    sim_reads,  \* indices of external_blocks read by that access, in order
    \* cache_simulacion_alpha.cpp: Cache<NUM_WAYS> and its last access()
    alpha_cache, alpha_hits, alpha_misses,
    alpha_ret,  \* its return value (TRUE = hit)
    \* callers and drivers
    address,    \* argument of the last access()
    i,          \* loop index of the driver
    count,      \* RealisticAccessPattern::count
    direct,     \* history: number of prefetch_adjacent_blocks() calls made
                \* by the caller itself, not by access()
    recency,    \* history: the blocks access() was called for, each once,
                \* the most recently accessed first
    pc          \* "caller": free caller; "run": in the driver loop;
                \* "done": results printed; "error": exception caught by
                \* main, exit code 1; "crash": the process died;
                \* "set": caller of a lone CacheSet; "dispatch", "prefetch",
                \* "count", "return": position in or between access() calls;
                \* "three": caller of the three Cache variants side by side

\* The literal 4 of the sources: a quarter of the blocks is hot
\* (max_blocks/4), main of simulacion-cache.cpp walks four quarters of the
\* address space (NUM_ELEMENTS/4, i % 4).
Quarters == 4

cfgVars  == <<CACHE_SIZE, MyBLOCK_SIZE, NUM_WAYS, PREFETCH_DISTANCE, NUM_ELEMENTS>>
asocVars == <<sets, hits, misses, prefetch_hits, calls, ret, reads, thrown>>
simVars  == <<cache, sim_hits, sim_misses, sim_ret, sim_reads>>
drvVars  == <<i, count, pc>>
histVars == <<recency, direct>>
alphaVars == <<alpha_cache, alpha_hits, alpha_misses, alpha_ret>>
vars     == <<cfgVars, asocVars, simVars, alphaVars, address, drvVars, histVars>>

\* ------------------------------------------------- ExternalMemory (STXXL)
\* ExternalMemory::size() of the memory run_simulation builds
memory_size == NUM_ELEMENTS \div MyBLOCK_SIZE

\* ExternalMemory::read_block on the cache record c: throws when the block
\* address is not below size, otherwise the read is recorded.
read_block(c, size, block_address) ==
    IF block_address >= size
    THEN [c EXCEPT !.thrown = TRUE]
    ELSE [c EXCEPT !.reads = Append(@, block_address)]

\* ---------------------------------------------------------------- CacheSet
\* std::find: position of the first occurrence, 0 for end()
Find(blocks, block_address) ==
    IF \E k \in 1..Len(blocks) : blocks[k] = block_address
    THEN CHOOSE k \in 1..Len(blocks) :
            /\ blocks[k] = block_address
            /\ \A j \in 1..(k - 1) : blocks[j] # block_address
    ELSE 0

\* std::list::erase(it)
Erase(blocks, k) ==
    [j \in 1..(Len(blocks) - 1) |-> IF j < k THEN blocks[j] ELSE blocks[j + 1]]

\* std::list::pop_back
PopBack(blocks) == SubSeq(blocks, 1, Len(blocks) - 1)

\* std::list::push_front
PushFront(blocks, block_address) == <<block_address>> \o blocks

\* Mutant of CacheSet::access: the pop_back of a full set is forgotten.
CacheSet_access_NoEvict(blocks, ways, block_address) ==
    LET it == Find(blocks, block_address) IN
    IF it # 0
    THEN [blocks |-> PushFront(Erase(blocks, it), block_address), ret |-> TRUE]
    ELSE [blocks |-> PushFront(blocks, block_address), ret |-> FALSE]

\* Mutant of CacheSet::access: a miss inserts first and evicts afterwards.
CacheSet_access_EvictAfter(blocks, ways, block_address) ==
    LET it == Find(blocks, block_address) IN
    IF it # 0
    THEN [blocks |-> PushFront(Erase(blocks, it), block_address), ret |-> TRUE]
    ELSE LET all == PushFront(blocks, block_address)
         IN  [blocks |-> IF Len(all) >= ways THEN PopBack(all) ELSE all,
              ret |-> FALSE]

\* Mutant of CacheSet::access: a hit moves the block to the back.
CacheSet_access_HitToBack(blocks, ways, block_address) ==
    LET it == Find(blocks, block_address) IN
    IF it # 0
    THEN [blocks |-> Append(Erase(blocks, it), block_address), ret |-> TRUE]
    ELSE LET kept == IF Len(blocks) >= ways THEN PopBack(blocks) ELSE blocks
         IN  [blocks |-> PushFront(kept, block_address), ret |-> FALSE]

\* Mutant of CacheSet::access: a hit pushes the block without erasing it.
CacheSet_access_NoErase(blocks, ways, block_address) ==
    LET it == Find(blocks, block_address) IN
    IF it # 0
    THEN [blocks |-> PushFront(blocks, block_address), ret |-> TRUE]
    ELSE LET kept == IF Len(blocks) >= ways THEN PopBack(blocks) ELSE blocks
         IN  [blocks |-> PushFront(kept, block_address), ret |-> FALSE]

\* Mutant of CacheSet::access: a full set evicts its front, not its back.
CacheSet_access_PopFront(blocks, ways, block_address) ==
    LET it == Find(blocks, block_address) IN
    IF it # 0
    THEN [blocks |-> PushFront(Erase(blocks, it), block_address), ret |-> TRUE]
    ELSE LET kept == IF Len(blocks) >= ways THEN Tail(blocks) ELSE blocks
         IN  [blocks |-> PushFront(kept, block_address), ret |-> FALSE]

\* Mutant of CacheSet::access: a hit leaves the list as it is (FIFO).
CacheSet_access_NoReorder(blocks, ways, block_address) ==
    LET it == Find(blocks, block_address) IN
    IF it # 0
    THEN [blocks |-> blocks, ret |-> TRUE]
    ELSE LET kept == IF Len(blocks) >= ways THEN PopBack(blocks) ELSE blocks
         IN  [blocks |-> PushFront(kept, block_address), ret |-> FALSE]

\* CacheSet::access: the new list and the return value
CacheSet_access(blocks, ways, block_address) ==
    LET it == Find(blocks, block_address) IN
    IF it # 0
    THEN [blocks |-> PushFront(Erase(blocks, it), block_address), ret |-> TRUE]
    ELSE LET kept == IF Len(blocks) >= ways THEN PopBack(blocks) ELSE blocks
         IN  [blocks |-> PushFront(kept, block_address), ret |-> FALSE]

\* CacheSet::contains
CacheSet_contains(blocks, block_address) == Find(blocks, block_address) # 0

\* ------------------------------------------- Cache (cache_asociativo.cpp)
\* Cache::Cache: the number of sets, at least 1
NumSets(cache_size, block_size, num_ways) ==
    LET num_sets == cache_size \div (block_size * num_ways) IN
    IF num_sets = 0 THEN 1 ELSE num_sets

\* sets.size()
SetsSize(c) == Cardinality(DOMAIN c.sets)

\* Cache::is_block_in_cache
is_block_in_cache(c, block_address) ==
    LET set_index == block_address % SetsSize(c) IN
    CacheSet_contains(c.sets[set_index], block_address)

\* Mutant of the loop body: no i < memory->size() test.
PrefetchBody_NoRangeCheck(c, size, b) ==
    IF is_block_in_cache(c, b)
    THEN [c EXCEPT !.prefetch_hits = @ + 1]
    ELSE read_block(c, size, b)

\* Mutant of the loop body: the test is i <= memory->size().
PrefetchBody_OffByOne(c, size, b) ==
    IF b <= size
    THEN IF is_block_in_cache(c, b)
         THEN [c EXCEPT !.prefetch_hits = @ + 1]
         ELSE read_block(c, size, b)
    ELSE c

\* Mutant of the loop body: a prefetched block is installed in its set and
\* a resident one is touched.
PrefetchBody_Installs(c, size, b) ==
    IF b < size
    THEN LET s  == b % SetsSize(c)
             c1 == [c EXCEPT !.sets[s] = CacheSet_access(@, NUM_WAYS, b).blocks]
         IN  IF is_block_in_cache(c, b)
             THEN [c1 EXCEPT !.prefetch_hits = @ + 1]
             ELSE read_block(c1, size, b)
    ELSE c

\* One iteration of the loop of prefetch_adjacent_blocks
PrefetchBody(c, size, b) ==
    IF b < size
    THEN IF is_block_in_cache(c, b)
         THEN [c EXCEPT !.prefetch_hits = @ + 1]
         ELSE read_block(c, size, b)
    ELSE c

\* for (i = first; i <= last; ++i), left early when read_block throws
RECURSIVE PrefetchLoop(_, _, _, _)
PrefetchLoop(c, size, b, last) ==
    IF b > last \/ c.thrown THEN c
    ELSE PrefetchLoop(PrefetchBody(c, size, b), size, b + 1, last)

\* Mutant of prefetch_adjacent_blocks: the loop starts at the missed block.
prefetch_adjacent_blocks_FromSelf(c, size, block_address) ==
    PrefetchLoop(c, size, block_address, block_address + PREFETCH_DISTANCE)

\* Mutant of prefetch_adjacent_blocks: the loop runs one block too far.
prefetch_adjacent_blocks_OneMore(c, size, block_address) ==
    PrefetchLoop(c, size, block_address + 1, block_address + PREFETCH_DISTANCE + 1)

\* Cache::prefetch_adjacent_blocks
prefetch_adjacent_blocks(c, size, block_address) ==
    PrefetchLoop(c, size, block_address + 1, block_address + PREFETCH_DISTANCE)

\* Mutant of Cache::access: the set is chosen by the address, not the block.
Cache_access_SetByAddress(c, size, addr) ==
    LET block_address == addr \div MyBLOCK_SIZE
        set_index     == addr % SetsSize(c)
        r  == CacheSet_access(c.sets[set_index], NUM_WAYS, block_address)
        c1 == [c EXCEPT !.sets[set_index] = r.blocks, !.reads = <<>>]
    IN  IF r.ret
        THEN [c1 EXCEPT !.hits = @ + 1, !.ret = TRUE]
        ELSE LET c2 == prefetch_adjacent_blocks(c1, size, block_address) IN
             IF c2.thrown THEN c2
             ELSE [c2 EXCEPT !.misses = @ + 1, !.ret = FALSE]

\* Mutant of Cache::access: the two counters are exchanged.
Cache_access_Swapped(c, size, addr) ==
    LET block_address == addr \div MyBLOCK_SIZE
        set_index     == block_address % SetsSize(c)
        r  == CacheSet_access(c.sets[set_index], NUM_WAYS, block_address)
        c1 == [c EXCEPT !.sets[set_index] = r.blocks, !.reads = <<>>]
    IN  IF r.ret
        THEN [c1 EXCEPT !.misses = @ + 1, !.ret = TRUE]
        ELSE LET c2 == prefetch_adjacent_blocks(c1, size, block_address) IN
             IF c2.thrown THEN c2
             ELSE [c2 EXCEPT !.hits = @ + 1, !.ret = FALSE]

\* Cache::access on the cache record c with memory of the given size
Cache_access(c, size, addr) ==
    LET block_address == addr \div MyBLOCK_SIZE
        set_index     == block_address % SetsSize(c)
        r  == CacheSet_access(c.sets[set_index], NUM_WAYS, block_address)
        c1 == [c EXCEPT !.sets[set_index] = r.blocks, !.reads = <<>>]
    IN  IF r.ret
        THEN [c1 EXCEPT !.hits = @ + 1, !.ret = TRUE]
        ELSE LET c2 == prefetch_adjacent_blocks(c1, size, block_address) IN
             IF c2.thrown THEN c2
             ELSE [c2 EXCEPT !.misses = @ + 1, !.ret = FALSE]

\* static_cast<double>(num) / den on two counters: the quotient as the
\* exact fraction num/den; 0.0/0.0 is NaN and x/0.0 is infinite
DoubleDiv(num, den) ==
    [nan |-> (num = 0 /\ den = 0), inf |-> (num # 0 /\ den = 0),
     num |-> num, den |-> den]

\* Cache::getHitRate
getHitRate(c) == DoubleDiv(c.hits, c.hits + c.misses)

\* Mutant of getEffectiveHitRate: the numerator leaves prefetch_hits out.
getEffectiveHitRate_NoPrefetch(c) ==
    DoubleDiv(c.hits, c.hits + c.misses + c.prefetch_hits)

\* Cache::getEffectiveHitRate
getEffectiveHitRate(c) ==
    DoubleDiv(c.hits + c.prefetch_hits, c.hits + c.misses + c.prefetch_hits)

\* The Cache object as a record
Self ==
    [sets |-> sets, hits |-> hits, misses |-> misses,
     prefetch_hits |-> prefetch_hits, ret |-> ret, reads |-> reads,
     thrown |-> thrown]

\* cache.access(addr) on the Cache object
Access(addr) ==
    LET c == Cache_access(Self, memory_size, addr) IN
    /\ sets' = c.sets
    /\ hits' = c.hits
    /\ misses' = c.misses
    /\ prefetch_hits' = c.prefetch_hits
    /\ ret' = c.ret
    /\ reads' = c.reads
    /\ thrown' = c.thrown
    /\ address' = addr
    /\ calls' = calls + 1

\* ------------------------------------------------------------------ Init
\* The configurations of the scaled model, with a memory of num_blocks
\* blocks: NUM_ELEMENTS is a multiple of the block size, as in the sources
Config(num_blocks) ==
    /\ MyBLOCK_SIZE \in 1..MaxBlockSize
    /\ NUM_WAYS \in 1..MaxWays
    /\ CACHE_SIZE \in 1..MaxCacheSize
    /\ PREFETCH_DISTANCE \in 0..MaxPrefetch
    /\ NUM_ELEMENTS = num_blocks * MyBLOCK_SIZE

\* Cache::Cache (cache_asociativo.cpp)
CacheInit ==
    /\ sets = [s \in 0..(NumSets(CACHE_SIZE, MyBLOCK_SIZE, NUM_WAYS) - 1) |-> <<>>]
    /\ hits = 0
    /\ misses = 0
    /\ prefetch_hits = 0
    /\ calls = 0
    /\ ret = FALSE
    /\ reads = <<>>
    /\ thrown = FALSE

\* the simulacion-cache.cpp cache is not built
SimIdle ==
    /\ cache = <<>>
    /\ sim_hits = 0
    /\ sim_misses = 0
    /\ sim_ret = FALSE
    /\ sim_reads = <<>>

\* the cache_simulacion_alpha.cpp cache is not built
AlphaIdle ==
    /\ alpha_cache = <<>>
    /\ alpha_hits = 0
    /\ alpha_misses = 0
    /\ alpha_ret = FALSE

\* no history of accesses is kept
NoHistory == recency = <<>> /\ direct = 0

\* ------------------------------------------------------------ free caller
\* Any caller of Cache::access: every address of the memory and of the
\* block that follows its end.
CallerAddresses == 0..(NUM_ELEMENTS + MyBLOCK_SIZE - 1)

\* The configurations the free caller's cache is built with: the smallest
\* and the largest block size, and the smallest cache (the number of sets
\* is clamped to 1 unless the block size and the associativity are 1) and
\* the largest.
CallerConfig ==
    /\ MyBLOCK_SIZE \in {1, MaxBlockSize}
    /\ NUM_WAYS \in 1..MaxWays
    /\ CACHE_SIZE \in {1, MaxCacheSize}
    /\ PREFETCH_DISTANCE \in 0..MaxPrefetch
    /\ NUM_ELEMENTS = MaxBlocks * MyBLOCK_SIZE

Init ==
    /\ CallerConfig
    /\ CacheInit
    /\ SimIdle
    /\ NoHistory
    /\ AlphaIdle
    /\ address = 0
    /\ i = 0
    /\ count = 0
    /\ pc = "caller"

Call ==
    /\ pc = "caller"
    /\ calls < MaxCalls
    /\ ~thrown
    /\ \E addr \in CallerAddresses : Access(addr)
    /\ UNCHANGED <<cfgVars, histVars, alphaVars, simVars, drvVars>>

\* The block addresses a caller passes to prefetch_adjacent_blocks: those of
\* CallerAddresses.
CallerBlocks == 0..memory_size

\* cache.prefetch_adjacent_blocks(block_address), a public method, called
\* by the caller itself
CallPrefetch ==
    /\ pc = "caller"
    /\ direct < MaxDirect
    /\ ~thrown
    /\ \E block_address \in CallerBlocks :
          LET c == prefetch_adjacent_blocks([Self EXCEPT !.reads = <<>>],
                                            memory_size, block_address)
          IN  /\ prefetch_hits' = c.prefetch_hits
              /\ reads' = c.reads
              /\ thrown' = c.thrown
    /\ direct' = direct + 1
    /\ UNCHANGED <<cfgVars, sets, hits, misses, calls, ret, address, recency,
                   alphaVars, simVars, drvVars>>

Next == Call \/ CallPrefetch

Spec == Init /\ [][Next]_vars

\* ------------------------------------------ free caller, history recorded
\* One element per block, two calls more than the free caller makes: on a
\* 2-way set a block is reused, another evicted and then asked for again.
LRUCalls == MaxCalls + 2

LRUInit ==
    /\ MyBLOCK_SIZE = 1
    /\ NUM_WAYS \in 1..MaxWays
    /\ CACHE_SIZE \in 1..MaxCacheSize
    /\ PREFETCH_DISTANCE = 1
    /\ NUM_ELEMENTS = MaxBlocks * MyBLOCK_SIZE
    /\ CacheInit
    /\ SimIdle
    /\ NoHistory
    /\ AlphaIdle
    /\ address = 0
    /\ i = 0
    /\ count = 0
    /\ pc = "caller"

\* cache.access(addr), and the block it is for becomes the most recent
LRUCall ==
    /\ pc = "caller"
    /\ calls < LRUCalls
    /\ ~thrown
    /\ \E addr \in CallerAddresses :
          LET b == addr \div MyBLOCK_SIZE
              Other(x) == x # b
          IN  /\ Access(addr)
              /\ recency' = <<b>> \o SelectSeq(recency, Other)
              /\ direct' = direct
    /\ UNCHANGED <<cfgVars, simVars, alphaVars, drvVars>>

LRUNext == LRUCall

SpecLRU == LRUInit /\ [][LRUNext]_vars

\* --------------------------------------------------- a CacheSet on its own
\* CacheSet(num_ways), held as sets[0]; the block addresses it is called
\* with are 0..MaxBlocks. The Cache around it is not used.
SetInit ==
    /\ NUM_WAYS \in 1..MaxSetWays
    /\ MyBLOCK_SIZE = 1
    /\ CACHE_SIZE = NUM_WAYS
    /\ PREFETCH_DISTANCE = 0
    /\ NUM_ELEMENTS = 0
    /\ sets = [s \in {0} |-> <<>>]
    /\ hits = 0
    /\ misses = 0
    /\ prefetch_hits = 0
    /\ calls = 0
    /\ ret = FALSE
    /\ reads = <<>>
    /\ thrown = FALSE
    /\ SimIdle
    /\ NoHistory
    /\ AlphaIdle
    /\ address = 0
    /\ i = 0
    /\ count = 0
    /\ pc = "set"

\* sets[0].access(block_address)
SetTouch ==
    /\ pc = "set"
    /\ calls < MaxTouches
    /\ \E block_address \in 0..MaxBlocks :
          LET r == CacheSet_access(sets[0], NUM_WAYS, block_address) IN
          /\ sets' = [sets EXCEPT ![0] = r.blocks]
          /\ ret' = r.ret
          /\ address' = block_address
    /\ calls' = calls + 1
    /\ UNCHANGED <<cfgVars, histVars, alphaVars, hits, misses, prefetch_hits, reads, thrown,
                   simVars, drvVars>>

\* sets[0].contains(block_address), a const method
SetContains ==
    /\ pc = "set"
    /\ calls < MaxTouches
    /\ \E block_address \in 0..MaxBlocks :
          /\ ret' = CacheSet_contains(sets[0], block_address)
          /\ address' = block_address
    /\ UNCHANGED <<cfgVars, histVars, alphaVars, sets, hits, misses, prefetch_hits, calls, reads,
                   thrown, simVars, drvVars>>

SetNext == SetTouch \/ SetContains

SpecSet == SetInit /\ [][SetNext]_vars

\* ------------------------------------------- Cache::access, step by step
\* The miss path of Cache::access in statement order: line 111 calls
\* prefetch_adjacent_blocks, line 112 increments misses.
MissOrder == <<"prefetch", "count">>

\* The statement that follows a statement of the miss path
AfterMiss(stmt) == IF MissOrder[1] = stmt THEN MissOrder[2] ELSE "return"

\* The configurations the stepwise cache is built with
OrderConfig ==
    /\ MyBLOCK_SIZE = MaxBlockSize
    /\ NUM_WAYS \in 1..MaxWays
    /\ CACHE_SIZE = MaxCacheSize
    /\ PREFETCH_DISTANCE \in 0..MaxPrefetch
    /\ NUM_ELEMENTS = MaxBlocks * MyBLOCK_SIZE

OrderInit ==
    /\ OrderConfig
    /\ CacheInit
    /\ SimIdle
    /\ NoHistory
    /\ AlphaIdle
    /\ address = 0
    /\ i = 0
    /\ count = 0
    /\ pc = "dispatch"

\* The caller dispatches access(addr); lines 102-108: the set is asked,
\* and a hit is counted and returned.
OrderDispatch ==
    /\ pc = "dispatch"
    /\ calls < MaxCalls
    /\ ~thrown
    /\ \E addr \in CallerAddresses :
          LET block_address == addr \div MyBLOCK_SIZE
              set_index     == block_address % SetsSize(Self)
              r == CacheSet_access(sets[set_index], NUM_WAYS, block_address)
          IN  /\ sets' = [sets EXCEPT ![set_index] = r.blocks]
              /\ hits' = IF r.ret THEN hits + 1 ELSE hits
              /\ ret' = IF r.ret THEN TRUE ELSE ret
              /\ pc' = IF r.ret THEN "dispatch" ELSE MissOrder[1]
              /\ address' = addr
    /\ calls' = calls + 1
    /\ reads' = <<>>
    /\ UNCHANGED <<cfgVars, histVars, alphaVars, misses, prefetch_hits, thrown, simVars, i, count>>

\* line 111: prefetch_adjacent_blocks(block_address)
OrderPrefetch ==
    /\ pc = "prefetch"
    /\ LET c == prefetch_adjacent_blocks(Self, memory_size,
                                         address \div MyBLOCK_SIZE)
       IN  /\ prefetch_hits' = c.prefetch_hits
           /\ reads' = c.reads
           /\ thrown' = c.thrown
           /\ pc' = IF c.thrown THEN "dispatch" ELSE AfterMiss("prefetch")
    /\ UNCHANGED <<cfgVars, histVars, alphaVars, sets, hits, misses, calls, ret, simVars, address,
                   i, count>>

\* line 112: misses++
OrderCount ==
    /\ pc = "count"
    /\ misses' = misses + 1
    /\ pc' = AfterMiss("count")
    /\ UNCHANGED <<cfgVars, histVars, alphaVars, sets, hits, prefetch_hits, calls, ret, reads,
                   thrown, simVars, address, i, count>>

\* line 113: return false
OrderReturn ==
    /\ pc = "return"
    /\ ret' = FALSE
    /\ pc' = "dispatch"
    /\ UNCHANGED <<cfgVars, histVars, alphaVars, sets, hits, misses, prefetch_hits, calls, reads,
                   thrown, simVars, address, i, count>>

OrderNext == OrderDispatch \/ OrderPrefetch \/ OrderCount \/ OrderReturn

SpecOrder == OrderInit /\ [][OrderNext]_vars

\* ------------------------------------------------ RealisticAccessPattern
\* hot_block_dist, cold_block_dist and element_dist of the constructor.
\* max_blocks / 4 - 1 is a size_t: below 4 blocks it wraps around, so the
\* runs below have 4 blocks (the sources have 128).
hot_block_dist(max_blocks) == 0..(max_blocks \div Quarters - 1)
cold_block_dist(max_blocks) == 0..(max_blocks - 1)
element_dist == 0..(MyBLOCK_SIZE - 1)

\* RealisticAccessPattern::next_address: the addresses it may return, each
\* with the new value of count
next_address(max_blocks, num_elements, cnt) ==
    IF cnt >= num_elements
    THEN {[address |-> 0, count |-> cnt]}
    ELSE UNION {
            {[address |-> block * MyBLOCK_SIZE + e, count |-> cnt + 1] :
                block \in (IF access_hot THEN hot_block_dist(max_blocks)
                                         ELSE cold_block_dist(max_blocks)),
                e \in element_dist}
            : access_hot \in BOOLEAN}

\* ------------------------------------- CacheSimulator::run_simulation
\* the cache_asociativo.cpp cache is not built
AsocIdle ==
    /\ sets = <<>>
    /\ hits = 0
    /\ misses = 0
    /\ prefetch_hits = 0
    /\ calls = 0
    /\ ret = FALSE
    /\ reads = <<>>
    /\ thrown = FALSE

\* The configurations of run_simulation<NUM_WAYS>: main sweeps the number
\* of ways, the other constants are fixed.
RunConfig ==
    /\ MyBLOCK_SIZE = MaxBlockSize
    /\ NUM_WAYS \in 1..MaxWays
    /\ CACHE_SIZE = MaxCacheSize
    /\ PREFETCH_DISTANCE = MaxPrefetch
    /\ NUM_ELEMENTS = Quarters * MyBLOCK_SIZE

\* memory, pattern and cache of run_simulation, before the loop
RunInit ==
    /\ RunConfig
    /\ CacheInit
    /\ SimIdle
    /\ NoHistory
    /\ AlphaIdle
    /\ address = 0
    /\ i = 0
    /\ count = 0
    /\ pc = "run"

\* one iteration of the loop: cache.access(pattern.next_address()); an
\* exception leaves run_simulation and is caught by main
RunStep ==
    /\ pc = "run"
    /\ i < NUM_ELEMENTS
    /\ \E r \in next_address(memory_size, NUM_ELEMENTS, count) :
          /\ Access(r.address)
          /\ count' = r.count
    /\ i' = IF thrown' THEN i ELSE i + 1
    /\ pc' = IF thrown' THEN "error" ELSE "run"
    /\ UNCHANGED <<cfgVars, histVars, alphaVars, simVars>>

\* Mutant of the loop exit: the loop may stop one iteration early.
RunEnd_OffByOne ==
    /\ pc = "run"
    /\ i >= NUM_ELEMENTS - 1
    /\ pc' = "done"
    /\ UNCHANGED <<cfgVars, histVars, alphaVars, asocVars, simVars, address, i, count>>

\* the loop is over: print_results
RunEnd ==
    /\ pc = "run"
    /\ i >= NUM_ELEMENTS
    /\ pc' = "done"
    /\ UNCHANGED <<cfgVars, histVars, alphaVars, asocVars, simVars, address, i, count>>

RunNext == RunStep \/ RunEnd

SpecRun == RunInit /\ [][RunNext]_vars

\* The runs whose termination is checked: one element per block, so a run
\* is Quarters accesses over Quarters blocks, and the prefetch looks one
\* block ahead.
RunFairInit ==
    /\ MyBLOCK_SIZE = 1
    /\ NUM_WAYS \in 1..MaxWays
    /\ CACHE_SIZE \in 1..MaxCacheSize
    /\ PREFETCH_DISTANCE = 1
    /\ NUM_ELEMENTS = Quarters * MyBLOCK_SIZE
    /\ CacheInit
    /\ SimIdle
    /\ NoHistory
    /\ AlphaIdle
    /\ address = 0
    /\ i = 0
    /\ count = 0
    /\ pc = "run"

\* run_simulation is sequential code on one thread: a statement that can
\* execute does execute.
SpecRunFair == RunFairInit /\ [][RunNext]_vars /\ WF_vars(RunNext)

\* ------------------------------------------ Cache (simulacion-cache.cpp)
\* CACHE_SIZE / (My_BLOCK_SIZE * NUM_WAYS): cache.size() and the modulus of
\* the set index, not clamped
SimNumSets == CACHE_SIZE \div (MyBLOCK_SIZE * NUM_WAYS)

\* external_blocks.size()
external_blocks_size == NUM_ELEMENTS \div MyBLOCK_SIZE

\* What reading external_blocks past its end (undefined behaviour: the
\* STXXL vector does not check the index) may do: yield garbage, or kill
\* the process.
UBOutcomes == {"garbage", "crash"}

\* Cache::is_block_in_cache
Sim_is_block_in_cache(sc, block_address) ==
    LET set_index == block_address % Cardinality(DOMAIN sc.cache) IN
    Find(sc.cache[set_index], block_address) # 0

\* for (i = first; i <= last; ++i) of prefetch_adjacent_blocks
RECURSIVE SimPrefetchLoop(_, _, _, _)
SimPrefetchLoop(sc, size, b, last) ==
    IF b > last THEN sc
    ELSE LET next == IF b < size /\ ~Sim_is_block_in_cache(sc, b)
                     THEN [sc EXCEPT !.reads = Append(@, b)]
                     ELSE sc
         IN  SimPrefetchLoop(next, size, b + 1, last)

\* Cache::prefetch_adjacent_blocks
Sim_prefetch_adjacent_blocks(sc, size, block_address) ==
    SimPrefetchLoop(sc, size, block_address + 1, block_address + PREFETCH_DISTANCE)

\* Cache::access on the cache record sc; ub is what an out-of-range read of
\* external_blocks does, should one happen. With no set at all the set
\* index is a remainder by zero, which kills the process.
Sim_access(sc, size, addr, ub) ==
    LET block_address == addr \div MyBLOCK_SIZE IN
    IF SimNumSets = 0 THEN [sc EXCEPT !.crashed = TRUE]
    ELSE
    LET set_index == block_address % SimNumSets
        it        == Find(sc.cache[set_index], block_address)
    IN  IF it # 0
        THEN [sc EXCEPT !.cache[set_index] = PushFront(Erase(@, it), block_address),
                        !.hits = @ + 1, !.ret = TRUE, !.reads = <<>>]
        ELSE LET c1 == [sc EXCEPT !.reads = <<block_address>>] IN
             IF block_address >= size /\ ub = "crash"
             THEN [c1 EXCEPT !.crashed = TRUE]
             ELSE LET c2   == Sim_prefetch_adjacent_blocks(c1, size, block_address)
                      set  == c2.cache[set_index]
                      kept == IF Len(set) = NUM_WAYS THEN PopBack(set) ELSE set
                  IN  [c2 EXCEPT !.cache[set_index] = PushFront(kept, block_address),
                                 !.misses = @ + 1, !.ret = FALSE]

\* The Cache object as a record
SimSelf ==
    [cache |-> cache, hits |-> sim_hits, misses |-> sim_misses,
     ret |-> sim_ret, reads |-> sim_reads, crashed |-> FALSE]

\* ------------------------------------------- main (simulacion-cache.cpp)
\* dist(gen) + (i % 4) * (NUM_ELEMENTS/4), dist uniform over 0..NUM_ELEMENTS/4
MainAddresses(k) ==
    {d + (k % Quarters) * (NUM_ELEMENTS \div Quarters) :
        d \in 0..(NUM_ELEMENTS \div Quarters)}

\* Cache<NUM_WAYS> cache; before the loop. The sources run 2, 4 and 8 ways,
\* each with at least 4 sets.
SimInit ==
    /\ Config(Quarters)
    /\ SimNumSets >= 1
    /\ AsocIdle
    /\ NoHistory
    /\ AlphaIdle
    /\ cache = [s \in 0..(SimNumSets - 1) |-> <<>>]
    /\ sim_hits = 0
    /\ sim_misses = 0
    /\ sim_ret = FALSE
    /\ sim_reads = <<>>
    /\ address = 0
    /\ i = 0
    /\ count = 0
    /\ pc = "run"

\* one iteration of the loop: cache.access(address)
SimStep ==
    /\ pc = "run"
    /\ i < NUM_ELEMENTS
    /\ \E addr \in MainAddresses(i), ub \in UBOutcomes :
          LET sc == Sim_access(SimSelf, external_blocks_size, addr, ub) IN
          /\ cache' = sc.cache
          /\ sim_hits' = sc.hits
          /\ sim_misses' = sc.misses
          /\ sim_ret' = sc.ret
          /\ sim_reads' = sc.reads
          /\ address' = addr
          /\ i' = IF sc.crashed THEN i ELSE i + 1
          /\ pc' = IF sc.crashed THEN "crash" ELSE "run"
    /\ UNCHANGED <<cfgVars, histVars, alphaVars, asocVars, count>>

\* the loop is over: the statistics are printed
SimEnd ==
    /\ pc = "run"
    /\ i >= NUM_ELEMENTS
    /\ pc' = "done"
    /\ UNCHANGED <<cfgVars, histVars, alphaVars, asocVars, simVars, address, i, count>>

SimNext == SimStep \/ SimEnd

SpecSim == SimInit /\ [][SimNext]_vars

\* Cache<NUM_WAYS> cache of simulacion-cache.cpp under any configuration of
\* the template, also one with more ways than the cache has blocks:
\* cache.resize(0), and access() takes a remainder by zero.
SimAnyInit ==
    /\ Config(Quarters)
    /\ AsocIdle
    /\ NoHistory
    /\ AlphaIdle
    /\ cache = [s \in 0..(SimNumSets - 1) |-> <<>>]
    /\ sim_hits = 0
    /\ sim_misses = 0
    /\ sim_ret = FALSE
    /\ sim_reads = <<>>
    /\ address = 0
    /\ i = 0
    /\ count = 0
    /\ pc = "run"

SpecSimAny == SimAnyInit /\ [][SimNext]_vars

\* ------------------------------------ Cache (cache_simulacion_alpha.cpp)
\* CACHE_SIZE / (BLOCK_SIZE * NUM_WAYS): no clamp to one set
AlphaNumSets == CACHE_SIZE \div (MyBLOCK_SIZE * NUM_WAYS)

\* Mutant of Cache::access: a hit leaves the block where it is.
Alpha_access_NoMove(ac, addr) ==
    LET block_address == addr \div MyBLOCK_SIZE IN
    IF AlphaNumSets = 0 THEN [ac EXCEPT !.crashed = TRUE]
    ELSE
    LET set_index == block_address % AlphaNumSets
        it        == Find(ac.cache[set_index], block_address)
    IN  IF it # 0
        THEN [ac EXCEPT !.hits = @ + 1, !.ret = TRUE]
        ELSE LET set  == ac.cache[set_index]
                 kept == IF Len(set) = NUM_WAYS THEN PopBack(set) ELSE set
             IN  [ac EXCEPT !.cache[set_index] = PushFront(kept, block_address),
                            !.misses = @ + 1, !.ret = FALSE]

\* Cache::access on the cache record ac. With no set at all the set index
\* is a remainder by zero, which kills the process.
Alpha_access(ac, addr) ==
    LET block_address == addr \div MyBLOCK_SIZE IN
    IF AlphaNumSets = 0 THEN [ac EXCEPT !.crashed = TRUE]
    ELSE
    LET set_index == block_address % AlphaNumSets
        it        == Find(ac.cache[set_index], block_address)
    IN  IF it # 0
        THEN [ac EXCEPT !.cache[set_index] = PushFront(Erase(@, it), block_address),
                        !.hits = @ + 1, !.ret = TRUE]
        ELSE LET set  == ac.cache[set_index]
                 kept == IF Len(set) = NUM_WAYS THEN PopBack(set) ELSE set
             IN  [ac EXCEPT !.cache[set_index] = PushFront(kept, block_address),
                            !.misses = @ + 1, !.ret = FALSE]

\* The Cache object as a record
AlphaSelf ==
    [cache |-> alpha_cache, hits |-> alpha_hits, misses |-> alpha_misses,
     ret |-> alpha_ret, crashed |-> FALSE]

\* ------------------------------------------ the three variants side by side
\* One caller gives the same in-range address to a Cache<NUM_WAYS> of each
\* source file, all three built from the same constants with at least one
\* set.
InRangeAddresses == 0..(NUM_ELEMENTS - 1)

\* One call more than the free caller makes: a hit, an eviction and a
\* prefetch hit in one sequence.
TriCalls == MaxCalls + 1

TriInit ==
    /\ Config(MaxBlocks)
    /\ CACHE_SIZE \div (MyBLOCK_SIZE * NUM_WAYS) >= 1
    /\ CacheInit
    /\ cache = [s \in 0..(SimNumSets - 1) |-> <<>>]
    /\ sim_hits = 0
    /\ sim_misses = 0
    /\ sim_ret = FALSE
    /\ sim_reads = <<>>
    /\ alpha_cache = [s \in 0..(AlphaNumSets - 1) |-> <<>>]
    /\ alpha_hits = 0
    /\ alpha_misses = 0
    /\ alpha_ret = FALSE
    /\ NoHistory
    /\ address = 0
    /\ i = 0
    /\ count = 0
    /\ pc = "three"

\* access(addr) on each of the three caches
TriCall ==
    /\ pc = "three"
    /\ calls < TriCalls
    /\ ~thrown
    /\ \E addr \in InRangeAddresses, ub \in UBOutcomes :
          LET sc == Sim_access(SimSelf, external_blocks_size, addr, ub)
              ac == Alpha_access(AlphaSelf, addr)
          IN  /\ Access(addr)
              /\ cache' = sc.cache
              /\ sim_hits' = sc.hits
              /\ sim_misses' = sc.misses
              /\ sim_ret' = sc.ret
              /\ sim_reads' = sc.reads
              /\ alpha_cache' = ac.cache
              /\ alpha_hits' = ac.hits
              /\ alpha_misses' = ac.misses
              /\ alpha_ret' = ac.ret
              /\ pc' = IF sc.crashed \/ ac.crashed THEN "crash" ELSE "three"
    /\ UNCHANGED <<cfgVars, histVars, i, count>>

TriNext == TriCall

SpecTri == TriInit /\ [][TriNext]_vars

\* ============================================================ properties
\* Vocabulary of the statements below.
BlockOf(addr) == addr \div MyBLOCK_SIZE
NUM_SETS == NumSets(CACHE_SIZE, MyBLOCK_SIZE, NUM_WAYS)
SetOf(b) == b % NUM_SETS
\* b is one of the indices held by the list
Holds(blocks, b) == \E k \in 1..Len(blocks) : blocks[k] = b
\* the step is one access() call on the cache_asociativo.cpp cache
IsAccess == calls' = calls + 1
\* the sets after touching b alone
Touched(b) ==
    [sets EXCEPT ![SetOf(b)] = CacheSet_access(sets[SetOf(b)], NUM_WAYS, b).blocks]
\* the successors b+1 .. b+PREFETCH_DISTANCE, ascending
Successors(b) == [k \in 1..PREFETCH_DISTANCE |-> b + k]
InRange(b) == b < memory_size

\* C1: every set holds at most NUM_WAYS block indices and no block index
\* appears twice in the same set.
C1_SetBounded ==
    \A s \in DOMAIN sets :
        /\ Len(sets[s]) <= NUM_WAYS
        /\ \A j, k \in 1..Len(sets[s]) : j # k => sets[s][j] # sets[s][k]

\* C1 witness: a 2-way single set that is full after a third miss, that is
\* after an eviction.
C1_Witness ==
    /\ NUM_WAYS = 2 /\ NUM_SETS = 1
    /\ misses = 3 /\ hits = 0
    /\ Len(sets[0]) = 2

\* C2: every resident block index b is stored in set (b mod NUM_SETS), and
\* so in no other set.
C2_HomeSet ==
    /\ DOMAIN sets = 0..(NUM_SETS - 1)
    /\ \A s \in DOMAIN sets : \A k \in 1..Len(sets[s]) : SetOf(sets[s][k]) = s

\* C2 witness: two sets are occupied and the block size is not 1.
C2_Witness ==
    /\ MyBLOCK_SIZE = 2
    /\ \E s, t \in DOMAIN sets : s # t /\ sets[s] # <<>> /\ sets[t] # <<>>

\* C3: access(addr) returns Hit exactly when block addr / BLOCK_SIZE was
\* resident in its set at the time of the call; a Hit adds one to hits and
\* leaves misses and prefetch_hits alone; a Miss adds one to misses, leaves
\* hits alone and runs prefetch: each in-range successor is counted or read.
C3_HitIffResident ==
    [][IsAccess =>
        LET b == BlockOf(address') IN
        /\ ret' <=> Holds(sets[SetOf(b)], b)
        /\ ret' => /\ hits' = hits + 1
                   /\ misses' = misses
                   /\ prefetch_hits' = prefetch_hits
        /\ ~ret' => /\ misses' = misses + 1
                    /\ hits' = hits
                    /\ (prefetch_hits' - prefetch_hits) + Len(reads')
                         = Cardinality({k \in 1..PREFETCH_DISTANCE : InRange(b + k)})
      ]_vars

\* C3 witness: a hit after misses whose prefetch found a resident successor.
C3_Witness == direct = 0 /\ calls >= 3 /\ ret /\ hits = 1 /\ prefetch_hits >= 1

\* C4: hits + misses equals the number of access() calls made.
C4_CountsCalls == hits + misses = calls

\* C4 witness: hits and misses have both happened.
C4_Witness == calls = MaxCalls /\ hits >= 1 /\ misses >= 2

\* C5: prefetch never changes the contents or the order of any set: after
\* an access the sets are those produced by touching the block alone.
C5_PrefetchKeepsSets ==
    [][IsAccess => sets' = Touched(BlockOf(address'))]_vars

\* C5 witness: the second of two misses found one successor resident and
\* read another from the backing store.
C5_Witness ==
    /\ direct = 0
    /\ calls = 2 /\ misses = 2 /\ ~ret
    /\ prefetch_hits = 1 /\ Len(reads) = 1

\* C6: on a miss for block b, prefetch_hits grows by the number of in-range
\* successors resident when prefetch runs, the non-resident in-range
\* successors are read once each, in order, and nothing else is read.
C6_PrefetchCounts ==
    [][(IsAccess /\ ~ret') =>
        LET b == BlockOf(address')
            T == Touched(b)
            Res(x) == Holds(T[SetOf(x)], x)
            Hit(x) == InRange(x) /\ Res(x)
            Rd(x)  == InRange(x) /\ ~Res(x)
        IN  /\ prefetch_hits' - prefetch_hits
                 = Cardinality({k \in 1..PREFETCH_DISTANCE : Hit(b + k)})
            /\ reads' = SelectSeq(Successors(b), Rd)
      ]_vars

\* C6 witness: three misses on b+2, b+1 and b with two 1-way sets: the miss
\* on b evicted its own successor b+2, which prefetch then read again, and
\* found b+1 resident.
C6_Witness ==
    /\ direct = 0
    /\ calls = 3 /\ misses = 3 /\ prefetch_hits = 2 /\ ~ret
    /\ PREFETCH_DISTANCE = 2 /\ NUM_WAYS = 1 /\ NUM_SETS = 2
    /\ LET b == BlockOf(address) IN
       /\ SetOf(b + 2) = SetOf(b)
       /\ reads = <<b + 2>>
       /\ Holds(sets[SetOf(b + 1)], b + 1)

\* C7: in every state reached by access() calls alone (the caller has not
\* called prefetch_adjacent_blocks itself),
\* prefetch_hits <= misses * PREFETCH_DISTANCE.
C7_PrefetchHitsBound ==
    direct = 0 => prefetch_hits <= misses * PREFETCH_DISTANCE

\* C7 witness: a miss all of whose successors were resident.
C7_Witness ==
    /\ direct = 0
    /\ PREFETCH_DISTANCE = 2 /\ misses = 3 /\ hits = 0
    /\ prefetch_hits = 2 /\ ~ret /\ reads = <<>>
    /\ InRange(BlockOf(address) + 2)

\* C8: prefetch never reads a block index >= NUM_BLOCKS from the backing
\* store and never raises OutOfRange.
C8_PrefetchInRange ==
    /\ ~thrown
    /\ \A k \in 1..Len(reads) : InRange(reads[k])

\* C8 witness: a miss on an in-range block within PREFETCH_DISTANCE of the
\* end of the store: the in-range successor was read, the other skipped.
C8_Witness ==
    /\ direct = 0
    /\ calls >= 1 /\ ~ret /\ PREFETCH_DISTANCE = 2
    /\ BlockOf(address) = memory_size - 2
    /\ reads = <<memory_size - 1>>

\* C9: an address whose block index is >= NUM_BLOCKS is rejected (the run
\* ends in main's error exit) and never silently accepted: its block is not
\* installed in the cache and does not index the backing store. Stated of
\* the run of simulacion-cache.cpp.
C9_OutOfRangeRejected ==
    /\ BlockOf(address) >= external_blocks_size => pc = "error"
    /\ \A s \in DOMAIN cache : \A k \in 1..Len(cache[s]) :
           cache[s][k] < external_blocks_size
    /\ \A k \in 1..Len(sim_reads) : sim_reads[k] < external_blocks_size

\* C10: every address the generator hands to the cache decodes to a block
\* index below NUM_BLOCKS, and a finished run has produced exactly
\* NUM_ELEMENTS addresses. Stated of the run of simulacion-cache.cpp.
C10_GeneratedInRange ==
    /\ BlockOf(address) < external_blocks_size
    /\ pc = "done" => i = NUM_ELEMENTS

\* The same statement for RealisticAccessPattern under run_simulation
\* (cache_asociativo.cpp), where it holds.
RealisticInRange ==
    /\ BlockOf(address) < memory_size
    /\ count = i
    /\ pc = "done" => count = NUM_ELEMENTS

\* C11: access(a) followed immediately by access(a) makes the second call a
\* Hit: an access whose address is that of the access before it returns
\* TRUE.
C11_RepeatHits ==
    [][(IsAccess /\ calls >= 1 /\ address' = address) => ret']_vars

\* C11 witness: a 1-way single set, block size 1: a miss that evicted the
\* resident block, then a hit, which can only be on the same address.
C11_Witness ==
    /\ MyBLOCK_SIZE = 1 /\ NUM_WAYS = 1 /\ NUM_SETS = 1
    /\ calls = 3 /\ misses = 2 /\ hits = 1 /\ ret

\* C12: the number of sets the cache is built with and decodes addresses
\* against is max(1, CACHE_SIZE / (BLOCK_SIZE * NUM_WAYS)), so the set index
\* always names an existing set. Stated of the cache of simulacion-cache.cpp.
C12_SetsClamped ==
    /\ Cardinality(DOMAIN cache) = NUM_SETS
    /\ BlockOf(address) % NUM_SETS \in DOMAIN cache
    /\ SimNumSets = 0 => pc # "crash"

\* Vocabulary for the two rates: a finite quotient, compared by
\* cross-multiplication of numerators and (positive) denominators.
Finite(q) == ~q.nan /\ ~q.inf
IsZero(q) == Finite(q) /\ q.num = 0
Leq(p, q) == p.num * q.den <= q.num * p.den
Less(p, q) == p.num * q.den < q.num * p.den

\* C13: hit_rate and effective_hit_rate are 0 when their denominators are
\* 0, that is on a cache on which no access() has been made.
C13_ZeroRates ==
    /\ hits + misses = 0 => IsZero(getHitRate(Self))
    /\ hits + misses + prefetch_hits = 0 => IsZero(getEffectiveHitRate(Self))

\* C14: after at least one access, hit_rate lies in [0,1] and
\* effective_hit_rate >= hit_rate, strictly when prefetch_hits > 0.
C14_RatesOrdered ==
    calls >= 1 =>
        LET hr == getHitRate(Self)
            er == getEffectiveHitRate(Self)
        IN  /\ Finite(hr) /\ Finite(er)
            /\ 0 <= hr.num /\ hr.num <= hr.den
            /\ Leq(hr, er)
            /\ prefetch_hits > 0 => Less(hr, er)

\* C14 witness: hits, misses and prefetch hits have all happened, and the
\* effective rate is strictly above the hit rate.
C14_Witness ==
    /\ direct = 0
    /\ hits >= 1 /\ prefetch_hits >= 1
    /\ Less(getHitRate(Self), getEffectiveHitRate(Self))

\* C15: touch(b) on a set that already contains b returns Hit, moves b to
\* the front, keeps the relative order of all other elements and keeps the
\* size and the membership of the set.
C15_HitMovesToFront ==
    [][(IsAccess /\ Holds(sets[0], address')) =>
        LET b == address'
            Other(x) == x # b
        IN  /\ ret'
            /\ sets'[0] = <<b>> \o SelectSeq(sets[0], Other)
            /\ Len(sets'[0]) = Len(sets[0])
            /\ {sets'[0][k] : k \in 1..Len(sets'[0])}
                 = {sets[0][k] : k \in 1..Len(sets[0])}
      ]_vars

\* C15 witness: three misses filled a 3-way set and the fourth call hit.
C15_Witness ==
    /\ pc = "set" /\ NUM_WAYS = 3 /\ calls = 4
    /\ Len(sets[0]) = 3 /\ ret /\ sets[0][1] = address

\* The block addresses a list holds.
Members(blocks) == {blocks[k] : k \in 1..Len(blocks)}

\* C16: an element leaves a set only when a miss is served on a set that
\* already holds exactly num_ways elements, and then exactly one element
\* leaves, the one at the back; a hit, a miss on a non-full set, contains()
\* and the prefetch remove nothing.
C16_EvictsOnlyBack ==
    [][/\ direct' # direct => sets' = sets
       /\ IsAccess =>
        \A s \in DOMAIN sets :
            LET old  == sets[s]
                new  == sets'[s]
                gone == Members(old) \ Members(new)
                full == /\ ~ret' /\ ~thrown'
                        /\ s = SetOf(BlockOf(address'))
                        /\ Len(old) = NUM_WAYS
            IN  /\ gone # {} => full
                /\ full => /\ gone = {old[Len(old)]}
                           /\ new = <<BlockOf(address')>>
                                      \o SubSeq(old, 1, Len(old) - 1)
      ]_vars

\* C16 witness: three misses on one 2-way set, so the third evicted.
C16_Witness ==
    /\ pc = "caller" /\ NUM_WAYS = 2 /\ NUM_SETS = 1 /\ ~thrown
    /\ calls = 3 /\ misses = 3 /\ Len(sets[0]) = 2

\* C18: touching the block that is already at the front of its set is a
\* hit and leaves the set as it was.
C18_FrontTouchKeepsOrder ==
    [][(IsAccess /\ Len(sets[0]) >= 1 /\ sets[0][1] = address') =>
        (ret' /\ sets' = sets)]_vars

\* C18 witness: the second call asked for the block the first one installed
\* in a set with room for more.
C18_Witness ==
    /\ pc = "set" /\ NUM_WAYS >= 2 /\ calls = 2
    /\ ret /\ sets[0] = <<address>>

\* C17: the prefetch_hits updates caused by a miss happen strictly after
\* the misses counter has been incremented for that miss, and before the
\* next access is dispatched.
C17_PrefetchAfterCount ==
    [][/\ prefetch_hits' # prefetch_hits => hits + misses = calls
       /\ calls' = calls + 1 => hits + misses = calls
      ]_vars

\* C19: a simulation run always terminates, and it ends either having made
\* exactly NUM_ELEMENTS access() calls, with hits + misses = NUM_ELEMENTS,
\* or having propagated an error to the driver; it never stops with fewer.
C19_RunCompletes ==
    /\ <>(pc \in {"done", "error"})
    /\ [](pc = "done" => (calls = NUM_ELEMENTS /\ hits + misses = NUM_ELEMENTS))
    /\ [](pc = "error" => thrown)
    /\ [][(pc \in {"done", "error"}) => (pc' = pc)]_vars

\* C19 witness: a run that ended after all its accesses, some of them hits.
C19_Witness ==
    /\ pc = "done" /\ i = NUM_ELEMENTS /\ hits + misses = NUM_ELEMENTS
    /\ hits > 0 /\ misses > 0

\* The distinct blocks of the set of b accessed since the last access to b
Since(b) ==
    LET at == Find(recency, b) IN
    {recency[k] : k \in {j \in 1..(at - 1) : SetOf(recency[j]) = SetOf(b)}}

\* C20: an access to block b is a hit exactly when b was accessed before and
\* fewer than NUM_WAYS distinct other blocks of the same set (the same value
\* mod NUM_SETS) were accessed since the last access to b; accesses to
\* blocks of other sets do not count.
C20_LRUCharacterisation ==
    [][IsAccess =>
        LET b == BlockOf(address') IN
        ret' <=> (/\ Find(recency, b) # 0
                  /\ Cardinality(Since(b)) < NUM_WAYS)
      ]_vars

\* C20 witness: a 2-way set saw three blocks in five calls with one hit, so
\* the last call asked for a block accessed before and evicted since.
C20_Witness ==
    /\ pc = "caller" /\ NUM_WAYS = 2 /\ NUM_SETS = 1
    /\ calls = 5 /\ hits = 1 /\ misses = 4 /\ ~ret
    /\ Len(recency) = 3

\* C21: built from the same block size, cache size and associativity with
\* at least one set, and given the same in-range addresses, the three Cache
\* variants (no prefetch, prefetch without counter, prefetch with
\* prefetch_hits) return the same hit or miss at every access and have the
\* same set contents, hits and misses after every access, whatever the
\* prefetch distance.
C21_VariantsAgree ==
    pc = "three" =>
        /\ sets = cache /\ cache = alpha_cache
        /\ ret = sim_ret /\ sim_ret = alpha_ret
        /\ hits = sim_hits /\ sim_hits = alpha_hits
        /\ misses = sim_misses /\ sim_misses = alpha_misses
        /\ hits + misses = calls

\* C21 witness: four calls on one 2-way set with three misses and a hit, so
\* a block was evicted, and a prefetch of the counting variant found a
\* resident successor.
C21_Witness ==
    /\ pc = "three" /\ NUM_WAYS = 2 /\ NUM_SETS = 1
    /\ PREFETCH_DISTANCE >= 1
    /\ calls = 4 /\ alpha_misses = 3 /\ alpha_hits = 1
    /\ prefetch_hits >= 1 /\ Len(alpha_cache[0]) = 2

====
